---- MODULE Spec2Model ----
(***************************************************************************)
(* pygame.scrap (src_c/scrap.c): the clipboard binding layer.               *)
(*                                                                         *)
(* The module state is the four statics of scrap.c (_scrapinitialized,      *)
(* _currentmode, _selectiondata, _clipdata).  The platform adapter          *)
(* (pygame_scrap_init/put/get/lost/contains/get_types, included from        *)
(* scrap_sdl2.c or scrap_win.c) is modelled from its contract: an OS        *)
(* clipboard holding typed content and an ownership bit.  The SDL text      *)
(* clipboard used by get_text/put_text/has_text is a separate text cell.    *)
(*                                                                         *)
(* A Python dict is a function from type tags to an option: <<>> is "no     *)
(* entry", <<p>> is the entry with payload p.  A Python return value of     *)
(* None is <<>>, a bytes or str object b is <<b>>.                          *)
(***************************************************************************)
EXTENDS Integers, Sequences, FiniteSets

\* ---------------------------------------------------------------- bounds
NumTypes == 2
MaxPayloadLen == 1
MaxTextLen == 1

\* ------------------------------------------------------------- constants
SCRAP_CLIPBOARD == 0
SCRAP_SELECTION == 1

Types == 1..NumTypes

RECURSIVE SeqsUpTo(_, _)
SeqsUpTo(S, n) ==
    IF n = 0 THEN {<<>>}
    ELSE LET shorter == SeqsUpTo(S, n - 1)
         IN  shorter \cup {Append(s, x) : s \in shorter, x \in S}

\* byte payloads ("y#": any bytes, the NUL byte included)
Payloads == SeqsUpTo({0}, MaxPayloadLen)
\* clipboard texts ("s": no NUL byte)
Texts == SeqsUpTo({97}, MaxTextLen)
\* the integers handed to set_mode
ModeArgs == {SCRAP_CLIPBOARD, SCRAP_SELECTION, 2}

EmptyDict == [t \in Types |-> <<>>]
Keys(d) == {t \in Types : d[t] # <<>>}
\* what another application can offer on the OS clipboard
OneType(t, p) == [u \in Types |-> IF u = t THEN <<p>> ELSE <<>>]
OsContents == {EmptyDict} \cup {OneType(t, p) : t \in Types, p \in Payloads}

VARIABLES
    scrapinitialized,   \* _scrapinitialized
    currentmode,        \* _currentmode
    selectiondata,      \* _selectiondata
    clipdata,           \* _clipdata
    owned,              \* adapter: this process owns the OS clipboard
    osClip,             \* adapter: the OS clipboard's typed content
    clipText,           \* SDL: the clipboard text
    last,               \* history: the last call, its arguments and its result
    stale               \* history: cached types whose loss of ownership was reported

vars == <<scrapinitialized, currentmode, selectiondata, clipdata, owned, osClip,
          clipText, last, stale>>

\* One call: the operation, how it ended, its type or mode argument, its payload
\* or text (for get_text: the text read), the value returned, the list returned,
\* the boolean returned or observed (get, get_types: pygame_scrap_lost(); init:
\* initialized before; get_text: the has-text probe), where the result came from.
Call(op, status, arg, data, val, keys, flag, via) ==
    [op |-> op, status |-> status, arg |-> arg, data |-> data, val |-> val,
     keys |-> keys, flag |-> flag, via |-> via, pre |-> <<>>]

\* a call that came right after another: pre is what that one wrote, if it wrote
After(call, written) == [call EXCEPT !.pre = written]

Init ==
    /\ scrapinitialized = FALSE
    /\ currentmode = SCRAP_CLIPBOARD
    /\ selectiondata = EmptyDict
    /\ clipdata = EmptyDict
    /\ owned = FALSE
    /\ osClip = EmptyDict
    /\ clipText = <<>>
    /\ last = Call("none", "ok", 0, <<>>, <<>>, {}, FALSE, "none")
    /\ stale = {}

\* ------------------------------------------------------ the adapter
pygame_scrap_initialized_always == TRUE

pygame_scrap_initialized == scrapinitialized

\* pygame_scrap_init(): a successful adapter init sets _scrapinitialized
pygame_scrap_init(ok) == scrapinitialized \/ ok

pygame_scrap_lost == ~owned

pygame_scrap_get(t) == osClip[t]

pygame_scrap_get_types == Keys(osClip)

pygame_scrap_contains(t) == osClip[t] # <<>>

\* pygame_scrap_put(): on success the data is the clipboard content and this
\* process owns the clipboard
pygame_scrap_put_owned(ok) == IF ok THEN TRUE ELSE owned

pygame_scrap_put_content(ok, t, p) == IF ok THEN OneType(t, p) ELSE osClip

\* ------------------------------------------------------ helpers
Frame ==
    UNCHANGED <<scrapinitialized, currentmode, selectiondata, clipdata, owned,
                osClip, clipText, stale>>

Raise(op, status) ==
    /\ last' = Call(op, status, 0, <<>>, <<>>, {}, FALSE, "none")
    /\ Frame

\* the switch on _currentmode of get_types and get
scrap_dict(mode) == IF mode = SCRAP_SELECTION THEN selectiondata ELSE clipdata

\* the ownership branch of get_types and get
serve_from_cache_always(lost) == TRUE

serve_from_cache(lost) == ~lost

\* PyDict_GetItemWithError: the entry, or NULL (None) for a missing key
cache_lookup(d, t) == d[t]

\* the payload of the call before, when that was a successful put of type t
JustPut(t) ==
    IF last.op = "put" /\ last.status = "ok" /\ last.arg = t
    THEN <<last.data>> ELSE <<>>

\* the text of the call before, when that was a successful put_text
JustPutText ==
    IF last.op = "put_text" /\ last.status = "ok" THEN <<last.data>> ELSE <<>>

\* what a reported loss of ownership makes stale: everything cached
Reported(lost) ==
    IF lost THEN stale \cup Keys(clipdata) \cup Keys(selectiondata) ELSE stale

\* ------------------------------------------------------ init
init_dict_always_new(wasInit, d) == EmptyDict

init_dict(wasInit, d) == IF ~wasInit THEN EmptyDict ELSE d

scrap_init ==
    \E video \in BOOLEAN :
        IF ~video
        THEN Raise("init", "VideoError")
        ELSE \E warnFatal \in BOOLEAN :
        IF warnFatal
        THEN Raise("init", "DeprecationWarning")
        ELSE \E adapterOk \in BOOLEAN :
             /\ clipdata' = init_dict(pygame_scrap_initialized, clipdata)
             /\ selectiondata' = init_dict(pygame_scrap_initialized, selectiondata)
             /\ scrapinitialized' = pygame_scrap_init(adapterOk)
             /\ last' = Call("init", IF adapterOk THEN "ok" ELSE "SDLError",
                             0, <<>>, <<>>, {}, scrapinitialized, "none")
             /\ stale' = {}
             /\ UNCHANGED <<currentmode, owned, osClip, clipText>>

scrap_get_init ==
    \E warnFatal \in BOOLEAN :
        IF warnFatal
        THEN Raise("get_init", "DeprecationWarning")
        ELSE /\ last' = Call("get_init", "ok", 0, <<>>, <<>>, {},
                             pygame_scrap_initialized, "none")
             /\ Frame

\* ------------------------------------------------------ get_types, contains, get
scrap_get_types ==
    \E warnFatal \in BOOLEAN :
        IF warnFatal
        THEN Raise("get_types", "DeprecationWarning")
        ELSE IF ~pygame_scrap_initialized
        THEN Raise("get_types", "NotInitialized")
        ELSE /\ last' = IF serve_from_cache(pygame_scrap_lost)
                        THEN Call("get_types", "ok", 0, <<>>, <<>>,
                                  Keys(scrap_dict(currentmode)), pygame_scrap_lost, "cache")
                        ELSE Call("get_types", "ok", 0, <<>>, <<>>,
                                  pygame_scrap_get_types, pygame_scrap_lost, "adapter")
             /\ stale' = Reported(pygame_scrap_lost)
             /\ UNCHANGED <<scrapinitialized, currentmode, selectiondata, clipdata,
                            owned, osClip, clipText>>

scrap_contains ==
    \E warnFatal \in BOOLEAN :
        IF warnFatal
        THEN Raise("contains", "DeprecationWarning")
        ELSE \E t \in Types :
             /\ last' = Call("contains", "ok", 0, <<>>, <<>>, {},
                             pygame_scrap_contains(t), "adapter")
             /\ Frame

scrap_get_scrap ==
    \E warnFatal \in BOOLEAN :
        IF warnFatal
        THEN Raise("get", "DeprecationWarning")
        ELSE IF ~pygame_scrap_initialized
        THEN Raise("get", "NotInitialized")
        ELSE \E t \in Types :
             /\ last' = After(IF serve_from_cache(pygame_scrap_lost)
                              THEN Call("get", "ok", t, <<>>,
                                        cache_lookup(scrap_dict(currentmode), t), {},
                                        pygame_scrap_lost, "cache")
                              ELSE Call("get", "ok", t, <<>>, pygame_scrap_get(t), {},
                                        pygame_scrap_lost, "adapter"),
                              JustPut(t))
             /\ stale' = Reported(pygame_scrap_lost)
             /\ UNCHANGED <<scrapinitialized, currentmode, selectiondata, clipdata,
                            owned, osClip, clipText>>

\* ------------------------------------------------------ put
\* "Add or replace the set value": reached only when pygame_scrap_put succeeded
put_clipdata_on_failure_too(ok, mode, d, t, p) ==
    IF mode # SCRAP_SELECTION THEN [d EXCEPT ![t] = <<p>>] ELSE d

put_clipdata_insert_only(ok, mode, d, t, p) ==
    IF ok /\ mode # SCRAP_SELECTION /\ d[t] = <<>> THEN [d EXCEPT ![t] = <<p>>] ELSE d

put_clipdata(ok, mode, d, t, p) ==
    IF ok /\ mode # SCRAP_SELECTION THEN [d EXCEPT ![t] = <<p>>] ELSE d

put_selectiondata(ok, mode, d, t, p) ==
    IF ok /\ mode = SCRAP_SELECTION THEN [d EXCEPT ![t] = <<p>>] ELSE d

scrap_put_scrap ==
    \E warnFatal \in BOOLEAN :
        IF warnFatal
        THEN Raise("put", "DeprecationWarning")
        ELSE IF ~pygame_scrap_initialized
        THEN Raise("put", "NotInitialized")
        ELSE \E t \in Types, p \in Payloads, ok \in BOOLEAN :
             /\ owned' = pygame_scrap_put_owned(ok)
             /\ osClip' = pygame_scrap_put_content(ok, t, p)
             /\ clipdata' = put_clipdata(ok, currentmode, clipdata, t, p)
             /\ selectiondata' = put_selectiondata(ok, currentmode, selectiondata, t, p)
             /\ stale' = IF ok THEN stale \ {t} ELSE stale
             /\ last' = Call("put", IF ok THEN "ok" ELSE "SDLError", t, p, <<>>, {},
                             FALSE, "adapter")
             /\ UNCHANGED <<scrapinitialized, currentmode, clipText>>

\* ------------------------------------------------------ lost, set_mode
scrap_lost_scrap ==
    IF ~pygame_scrap_initialized
    THEN Raise("lost", "NotInitialized")
    ELSE \E warnFatal \in BOOLEAN :
        IF warnFatal
        THEN Raise("lost", "DeprecationWarning")
        ELSE /\ last' = Call("lost", "ok", 0, <<>>, <<>>, {}, pygame_scrap_lost, "adapter")
             /\ stale' = Reported(pygame_scrap_lost)
             /\ UNCHANGED <<scrapinitialized, currentmode, selectiondata, clipdata,
                            owned, osClip, clipText>>

valid_mode(m) == m = SCRAP_CLIPBOARD \/ m = SCRAP_SELECTION

\* PyArg_ParseTuple stores the integer in _currentmode itself; a valid one is then
\* replaced by SCRAP_CLIPBOARD, an invalid one stays
set_mode_stored_as_requested(m) == m

set_mode_stored(m) == IF ~valid_mode(m) THEN m ELSE SCRAP_CLIPBOARD

scrap_set_mode ==
    IF ~pygame_scrap_initialized
    THEN Raise("set_mode", "NotInitialized")
    ELSE \E warnFatal \in BOOLEAN :
        IF warnFatal
        THEN Raise("set_mode", "DeprecationWarning")
        ELSE \E m \in ModeArgs :
             /\ currentmode' = set_mode_stored(m)
             /\ last' = Call("set_mode", IF valid_mode(m) THEN "ok" ELSE "ValueError",
                             m, <<>>, <<>>, {}, FALSE, "none")
             /\ UNCHANGED <<scrapinitialized, selectiondata, clipdata, owned, osClip,
                            clipText, stale>>

\* ------------------------------------------------------ the text trio
SDL_HasClipboardText == clipText # <<>>

get_text_raises_on_empty(hasText, text) == text = <<>>

get_text_raises(hasText, text) == text = <<>> /\ hasText

\* The probe sees the clipboard as it is; another application may replace the
\* text before the read (now), and the read may fail, which yields "".
scrap_get_text ==
    \E now \in Texts, readOk \in BOOLEAN :
        LET hasText == SDL_HasClipboardText
            text == IF readOk THEN now ELSE <<>>
            how == IF now # clipText THEN "race"
                   ELSE IF text # now THEN "readfail" ELSE "clean"
        IN  /\ clipText' = now
            /\ last' = After(IF get_text_raises(hasText, text)
                             THEN Call("get_text", "SDLError", 0, text, <<>>, {},
                                       hasText, how)
                             ELSE Call("get_text", "ok", 0, text, <<text>>, {},
                                       hasText, how),
                             JustPutText)
            /\ UNCHANGED <<scrapinitialized, currentmode, selectiondata, clipdata,
                           owned, osClip, stale>>

scrap_put_text ==
    \E s \in Texts, ok \in BOOLEAN :
        /\ clipText' = IF ok THEN s ELSE clipText
        /\ last' = Call("put_text", IF ok THEN "ok" ELSE "SDLError", 0, s, <<>>, {},
                        FALSE, "none")
        /\ UNCHANGED <<scrapinitialized, currentmode, selectiondata, clipdata,
                       owned, osClip, stale>>

scrap_has_text_needs_init ==
    IF ~pygame_scrap_initialized
    THEN Raise("has_text", "NotInitialized")
    ELSE /\ last' = Call("has_text", "ok", 0, <<>>, <<>>, {}, SDL_HasClipboardText, "none")
         /\ Frame

scrap_has_text ==
    /\ last' = Call("has_text", "ok", 0, <<>>, <<>>, {}, SDL_HasClipboardText, "none")
    /\ Frame

\* ------------------------------------------------------ other applications
other_app_takes_clipboard ==
    \E c \in OsContents :
        /\ owned' = FALSE
        /\ osClip' = c
        /\ last' = Call("external", "ok", 0, <<>>, <<>>, {}, FALSE, "none")
        /\ UNCHANGED <<scrapinitialized, currentmode, selectiondata, clipdata,
                       clipText, stale>>

other_app_sets_text ==
    \E s \in Texts :
        /\ clipText' = s
        /\ last' = Call("external", "ok", 0, <<>>, <<>>, {}, FALSE, "none")
        /\ UNCHANGED <<scrapinitialized, currentmode, selectiondata, clipdata,
                       owned, osClip, stale>>

\* ------------------------------------------------------ specifications
\* the typed clipboard: init, the generic operations and the other applications
Next ==
    \/ scrap_init
    \/ scrap_get_init
    \/ scrap_get_types
    \/ scrap_contains
    \/ scrap_get_scrap
    \/ scrap_put_scrap
    \/ scrap_lost_scrap
    \/ scrap_set_mode
    \/ other_app_takes_clipboard

Spec == Init /\ [][Next]_vars

\* the text trio, in every module state init, set_mode and put can produce
NextText ==
    \/ scrap_init
    \/ scrap_put_scrap
    \/ scrap_set_mode
    \/ scrap_get_text
    \/ scrap_put_text
    \/ scrap_has_text
    \/ other_app_sets_text

SpecText == Init /\ [][NextText]_vars

\* ====================================================== properties
GenericOps == {"get_types", "get", "put", "lost", "set_mode"}
TextOps == {"get_text", "put_text", "has_text"}
Answered(call) == call.status \notin {"NotInitialized", "DeprecationWarning"}
\* the mapping of the buffer the stored mode selects
CurrentBuffer == IF currentmode = SCRAP_SELECTION THEN selectiondata ELSE clipdata

\* C1: a get(T) that comes right after a successful put(T, P), with ownership
\* still retained, returns exactly P.
C1_PutThenGetReturnsPayload ==
    (last.op = "get" /\ last.status = "ok" /\ last.pre # <<>> /\ ~last.flag)
        => last.val = last.pre

\* C1 witness: such a get has returned a non-empty payload.
C1_Witness ==
    /\ last.op = "get" /\ last.status = "ok" /\ ~last.flag
    /\ last.pre = << <<0>> >> /\ last.val = << <<0>> >>

\* C2: a set_mode call that raises the invalid-mode error leaves the stored
\* mode as it was before the call.
C2_InvalidModeLeavesModeUnchanged ==
    [][(last'.op = "set_mode" /\ last'.status = "ValueError")
          => currentmode' = currentmode]_vars

C4_UninitializedFailsAndKeepsState ==
    [][(~scrapinitialized /\ last'.op \in GenericOps
          /\ last'.status # "DeprecationWarning")
          => (/\ last'.status = "NotInitialized"
              /\ UNCHANGED <<scrapinitialized, currentmode, selectiondata,
                             clipdata, owned, osClip>>)]_vars

\* C4 witness: a put was refused on the uninitialized module.
C4_Witness ==
    ~scrapinitialized /\ last.op = "put" /\ last.status = "NotInitialized"

\* C5: a put whose adapter write fails raises the clipboard-write error and
\* leaves both cache mappings unchanged, so with ownership retained get(T)
\* returns for every T what it returned before.
C5_FailedPutKeepsCache ==
    [][(last'.op = "put" /\ last'.status = "SDLError")
          => (/\ clipdata' = clipdata
              /\ selectiondata' = selectiondata
              /\ \A t \in Types :
                    (owned /\ owned') => CurrentBuffer'[t] = CurrentBuffer[t])]_vars

\* C5 witness: a put failed while the cache holds another payload for its type
\* and this process owns the clipboard.
C5_Witness ==
    /\ last.op = "put" /\ last.status = "SDLError" /\ owned
    /\ clipdata[last.arg] # <<>> /\ clipdata[last.arg] # <<last.data>>

\* C6: on an initialized module get(T) never raises; with ownership retained it
\* returns the current buffer's cache entry for T (absent if there is none)
\* without consulting the adapter, with ownership lost it returns the adapter's
\* content for T (absent if T is not offered) without consulting the cache.
C6_GetFollowsOwnership ==
    (last.op = "get" /\ Answered(last))
        => /\ last.status = "ok"
           /\ last.flag = ~owned
           /\ ~last.flag => (last.via = "cache" /\ last.val = CurrentBuffer[last.arg])
           /\ last.flag => (last.via = "adapter" /\ last.val = osClip[last.arg])

\* C6 witness: ownership is lost, the cache holds an entry for T, and get(T)
\* returned the other application's different content.
C6_Witness ==
    /\ last.op = "get" /\ last.status = "ok" /\ last.flag
    /\ last.val # <<>> /\ clipdata[last.arg] # <<>>
    /\ last.val # clipdata[last.arg]

\* C7: the stored mode is never Selection and the selection mapping never gains
\* an entry; set_mode(Selection) on an initialized module succeeds, and after
\* every successful set_mode the stored mode is Clipboard.
C7_ModeForcedToClipboard ==
    /\ currentmode # SCRAP_SELECTION
    /\ selectiondata = EmptyDict
    /\ CurrentBuffer = clipdata
    /\ (last.op = "set_mode" /\ last.status = "ok") => currentmode = SCRAP_CLIPBOARD
    /\ (last.op = "set_mode" /\ Answered(last) /\ last.arg = SCRAP_SELECTION)
          => last.status = "ok"

\* C7 witness: set_mode(Selection) has succeeded.
C7_Witness ==
    /\ last.op = "set_mode" /\ last.status = "ok" /\ last.arg = SCRAP_SELECTION
    /\ currentmode = SCRAP_CLIPBOARD

\* C8: get_text raises exactly when the probe reported text and the read
\* returned the empty string, and otherwise returns the text read; right after
\* a successful put_text(S) of a non-empty S, with no change by another
\* application and no failed read, it returns S.
C8_GetTextErrorAndRoundTrip ==
    last.op = "get_text"
        => /\ (last.status = "SDLError") <=> (last.flag /\ last.data = <<>>)
           /\ last.status # "SDLError" => (last.status = "ok" /\ last.val = <<last.data>>)
           /\ (last.pre # <<>> /\ last.pre # << <<>> >> /\ last.via = "clean")
                 => (last.status = "ok" /\ last.val = last.pre)

\* C8 witness: get_text returned the non-empty text put just before.
C8_Witness ==
    /\ last.op = "get_text" /\ last.status = "ok" /\ last.via = "clean"
    /\ last.pre = << <<97>> >> /\ last.val = << <<97>> >>

\* C9: get_text, put_text and has_text never fail with the not-initialized
\* error, in any module state, and leave the initialized flag, the stored mode
\* and both cache mappings unchanged.
C9_TextOpsBypassModuleState ==
    [][(last'.op \in TextOps)
          => (/\ last'.status # "NotInitialized"
              /\ UNCHANGED <<scrapinitialized, currentmode, selectiondata,
                             clipdata>>)]_vars

\* C9 witness: has_text answered on the uninitialized module.
C9_Witness ==
    ~scrapinitialized /\ last.op = "has_text" /\ last.status = "ok"

\* C10: a cache entry put before a reported loss of ownership (and not put
\* again, with no init since) is never served from the cache by get nor listed
\* from the cache by get_types.
C10_StaleEntryNeverServed ==
    /\ (last.op = "get" /\ last.via = "cache" /\ last.arg \in stale)
          => last.val = <<>>
    /\ (last.op = "get_types" /\ last.via = "cache")
          => last.keys \cap stale = {}
====
